---- MODULE Spec2Model ----
(***************************************************************************)
(* Model of the sample scheduler of the SVI tracking repository: the       *)
(* "Write Sample Scheduler" section of the databasing script.  One run of  *)
(* the script is a straight-line batch; each statement (or block) that     *)
(* reads an input, builds a table or writes a file is one action, and the  *)
(* position in the script is pc.  The dashboard that shows the two CSV     *)
(* files (App.jsx) is the second part: the state of the App component, the *)
(* promise chain of its loading effect and its event handlers.             *)
(*                                                                         *)
(* Dates are R Dates: the number of days since 1970-01-01.  A Sample ID is *)
(* the sequence of its characters, with the constant stretches that hold   *)
(* no digit ("MCW_SVI_", "_UDD", "_UIC") written as one element.           *)
(***************************************************************************)
EXTENDS Integers, Sequences, FiniteSets, TLC

VARIABLES
    pc,                     \* position in the script
    svi_database,           \* the assembled table (lines 181-207)
    database_csv,           \* public/svi_database.csv
    scheduler,              \* eligible rows (line 215)
    hotlist,                \* hotlist$Sample.ID (line 216)
    prioritized_list,       \* classified, sorted, ranked rows (lines 218-249)
    do_not_schedule_dates,  \* user-cancelled dates and holidays (line 271)
    num_meetings,           \* nrow(prioritized_list) (line 276)
    run_date,               \* Sys.Date() of the run (line 279)
    first_meeting,          \* first candidate (line 283)
    potential_dates,        \* generated candidates (lines 286-293)
    final_meeting_dates,    \* candidates not excluded (line 296)
    final_schedule,         \* prioritized_list with meeting_date (lines 299-300)
    scheduler_csv,          \* public/analysis_scheduler.csv
    dist_database_csv,      \* dist/svi_database.csv
    dist_scheduler_csv,     \* dist/analysis_scheduler.csv
    effect,                 \* App: position in the promise chain of useEffect
    settled,                \* App: what the chain carries (responses, texts, error)
    data,                   \* App: useState([])
    scheduleData,           \* App: useState([])
    initialHeader,          \* App: useState([])
    loading,                \* App: useState(true)
    error,                  \* App: useState(null)
    searchTerm,             \* App: useState('')
    sortConfig,             \* App: useState({key: 'Date Received', direction: 'descending'})
    identifierFilter,       \* App: useState('All')
    probandFilter,          \* App: useState('1')
    geneyxFilter,           \* App: useState('All')
    reportFilter,           \* App: useState('All')
    processedFilter         \* App: useState('All')

\* The variables of the script and those of the dashboard.
script_vars == <<pc, svi_database, database_csv, scheduler, hotlist, prioritized_list,
                 do_not_schedule_dates, num_meetings, run_date, first_meeting,
                 potential_dates, final_meeting_dates, final_schedule, scheduler_csv,
                 dist_database_csv, dist_scheduler_csv>>
ui_vars == <<effect, settled, data, scheduleData, initialHeader, loading, error,
             searchTerm, sortConfig, identifierFilter, probandFilter, geneyxFilter,
             reportFilter, processedFilter>>

vars == <<script_vars, ui_vars>>

-----------------------------------------------------------------------------
(* Values *)

\* R's missing value (NA_real_, NA of a Date, NA_character_).
NA == -1

\* Largest number of rows of svi_database explored.
MaxRows == 2

\* as.Date("y-m-d"): days since 1970-01-01 of a civil date.
Ymd(y, m, d) ==
    LET yy  == IF m <= 2 THEN y - 1 ELSE y
        era == yy \div 400
        yoe == yy - era * 400
        mp  == (m + 9) % 12
        doy == (153 * mp + 2) \div 5 + d - 1
        doe == yoe * 365 + yoe \div 4 - yoe \div 100 + doy
    IN  era * 146097 + doe - 719468

\* lubridate::year(date); NA for a missing date.
year(date) ==
    IF date = NA THEN NA
    ELSE LET z   == date + 719468
             era == z \div 146097
             doe == z - era * 146097
             yoe == (doe - doe \div 1460 + doe \div 36524 - doe \div 146096) \div 365
             doy == doe - (365 * yoe + yoe \div 4 - yoe \div 100)
             mp  == (5 * doy + 2) \div 153
             m   == IF mp < 10 THEN mp + 3 ELSE mp - 9
         IN  yoe + era * 400 + (IF m <= 2 THEN 1 ELSE 0)

\* lubridate::wday(date): 1 = Sunday ... 7 = Saturday (1970-01-01 was a Thursday).
wday(date) == ((date + 4) % 7) + 1

Digits == {"0", "1", "2", "3", "4", "5", "6", "7", "8", "9"}

DigitVal(c) ==
    CASE c = "0" -> 0 [] c = "1" -> 1 [] c = "2" -> 2 [] c = "3" -> 3
      [] c = "4" -> 4 [] c = "5" -> 5 [] c = "6" -> 6 [] c = "7" -> 7
      [] c = "8" -> 8 [] c = "9" -> 9

\* Position of the first digit of id at or after i, 0 when there is none.
RECURSIVE FirstDigit(_, _)
FirstDigit(id, i) ==
    IF i > Len(id) THEN 0
    ELSE IF id[i] \in Digits THEN i
    ELSE FirstDigit(id, i + 1)

\* Value of the run of digits of id that starts at i, given the value acc read so far.
RECURSIVE DigitRun(_, _, _)
DigitRun(id, i, acc) ==
    IF i > Len(id) \/ id[i] \notin Digits THEN acc
    ELSE DigitRun(id, i + 1, acc * 10 + DigitVal(id[i]))

\* as.numeric(str_extract(`Sample ID`, "\\d+")): the first run of digits, NA when
\* the identifier holds no digit.
sample_id_num(id) ==
    LET i == FirstDigit(id, 1)
    IN  IF i = 0 THEN NA ELSE DigitRun(id, i, 0)

\* Identifier: the class read off the end of the Sample ID (grepl("_UIC$"), ...).
Identifier(id) ==
    IF Len(id) > 0 /\ id[Len(id)] = "_UIC" THEN "UIC"
    ELSE IF Len(id) > 0 /\ id[Len(id)] = "_UDD" THEN "UDD"
    ELSE "Base"

-----------------------------------------------------------------------------
(* Inputs explored *)

ID_0012     == <<"MCW_SVI_", "0", "0", "1", "2">>
ID_0012_UDD == <<"MCW_SVI_", "0", "0", "1", "2", "_UDD">>
ID_0007_UIC == <<"MCW_SVI_", "0", "0", "0", "7", "_UIC">>
ID_0031_UDD == <<"MCW_SVI_", "0", "0", "3", "1", "_UDD">>
ID_X_UDD    == <<"MCW_SVI_", "X", "_UDD">>

SampleIDs == {ID_0012, ID_0012_UDD, ID_0007_UIC, ID_0031_UDD, ID_X_UDD}

Received2025 == Ymd(2025, 3, 4)
Received2024 == Ymd(2024, 12, 30)
Received2021 == Ymd(2021, 11, 9)

\* One row of svi_database, restricted to the columns the scheduler selects.
Row(id, proband, received, report) ==
    [SampleID |-> id, proband |-> proband, DateReceived |-> received,
     Identifier |-> Identifier(id), report |-> report]

\* The rows a database is drawn from: eligible rows of each class, with and
\* without a number, a received date inside and outside the tracked years or
\* missing, and rows that are reported, not a proband, or of unknown proband.
Rows ==
    { Row(ID_0012, 1, Received2025, 0),
      Row(ID_0012_UDD, 1, Received2025, 0),
      Row(ID_X_UDD, 1, Received2025, 0),
      Row(ID_0031_UDD, 1, Received2025, 0),
      Row(ID_0031_UDD, 1, Received2024, 0),
      Row(ID_0007_UIC, 1, Received2021, 0),
      Row(ID_0012_UDD, 1, NA, 0),
      Row(ID_0012, 1, Received2021, 0),
      Row(ID_0012_UDD, 1, Received2021, 0),
      Row(ID_0012, 1, Received2025, 1),
      Row(ID_0012_UDD, 0, Received2025, 0),
      Row(ID_X_UDD, NA, Received2025, 0) }

\* svi_database values: up to MaxRows rows, in ingestion order; `ingest' is the
\* row's position in svi_database (its row name).
Databases ==
    UNION { { [i \in 1..n |-> [SampleID |-> f[i].SampleID, proband |-> f[i].proband,
                               DateReceived |-> f[i].DateReceived,
                               Identifier |-> f[i].Identifier,
                               report |-> f[i].report, ingest |-> i]]
              : f \in [1..n -> Rows] } : n \in 0..MaxRows }

\* hotlist.csv contents explored.
HotlistChoices == {{}, {ID_0012, ID_0012_UDD}, SampleIDs}

\* canceled_meetings.csv contents explored: single meetings, and a blackout long
\* enough to cover every generated candidate but the one of 2025-07-01.
Blackout == Ymd(2025, 7, 2) .. Ymd(2026, 3, 31)
CanceledChoices ==
    {{}, {Ymd(2025, 7, 1)}, {Ymd(2025, 7, 1), Ymd(2025, 7, 8)}, Blackout,
     Blackout \cup {Ymd(2025, 7, 1)}}

\* Sys.Date() values explored: one of each weekday in 2025, and a day at the end
\* of 2026.
RunDates == (Ymd(2025, 6, 28) .. Ymd(2025, 7, 4)) \cup {Ymd(2026, 12, 26)}

\* A file of the output directories: not (re)written by this run, or written
\* with the given rows.
Unwritten == [written |-> FALSE, rows |-> <<>>]
Written(rows) == [written |-> TRUE, rows |-> rows]

-----------------------------------------------------------------------------
(* The scheduler's computations *)

\* eligible with the proband test turned into "not a known non-proband".
eligible_KeepsUnknownProband(r) == r.proband # 0 /\ r.report # NA /\ r.report = 0

\* filter(proband == 1, report == 0): a row is kept when both tests are TRUE; a
\* test on a missing value is NA and drops the row.
eligible(r) == r.proband # NA /\ r.proband = 1 /\ r.report # NA /\ r.report = 0

\* priority_level with the hot-list rule placed after the UIC rule.
priority_level_ClassFirst(id, ident, yr, hot) ==
    IF ident = "UIC" THEN 1
    ELSE IF id \in hot THEN 0
    ELSE IF ident = "UDD" /\ yr = 2025 THEN 2
    ELSE IF ident = "UDD" /\ yr = 2024 THEN 3
    ELSE IF ident = "UDD" /\ yr = 2023 THEN 4
    ELSE IF ident = "UDD" /\ yr = 2022 THEN 5
    ELSE IF ident = "Base" /\ yr = 2025 THEN 102
    ELSE IF ident = "Base" /\ yr = 2024 THEN 103
    ELSE IF ident = "Base" /\ yr = 2023 THEN 104
    ELSE IF ident = "Base" /\ yr = 2022 THEN 105
    ELSE 999

\* priority_level with the Base rules shifted by one year.
priority_level_BaseShifted(id, ident, yr, hot) ==
    IF id \in hot THEN 0
    ELSE IF ident = "UIC" THEN 1
    ELSE IF ident = "UDD" /\ yr = 2025 THEN 2
    ELSE IF ident = "UDD" /\ yr = 2024 THEN 3
    ELSE IF ident = "UDD" /\ yr = 2023 THEN 4
    ELSE IF ident = "UDD" /\ yr = 2022 THEN 5
    ELSE IF ident = "Base" /\ yr = 2024 THEN 102
    ELSE IF ident = "Base" /\ yr = 2023 THEN 103
    ELSE IF ident = "Base" /\ yr = 2022 THEN 104
    ELSE IF ident = "Base" /\ yr = 2021 THEN 105
    ELSE 999

\* case_when of priority_level: the first rule that is TRUE wins; a comparison
\* with a missing year is NA and does not match.
priority_level(id, ident, yr, hot) ==
    IF id \in hot THEN 0
    ELSE IF ident = "UIC" THEN 1
    ELSE IF ident = "UDD" /\ yr = 2025 THEN 2
    ELSE IF ident = "UDD" /\ yr = 2024 THEN 3
    ELSE IF ident = "UDD" /\ yr = 2023 THEN 4
    ELSE IF ident = "UDD" /\ yr = 2022 THEN 5
    ELSE IF ident = "Base" /\ yr = 2025 THEN 102
    ELSE IF ident = "Base" /\ yr = 2024 THEN 103
    ELSE IF ident = "Base" /\ yr = 2023 THEN 104
    ELSE IF ident = "Base" /\ yr = 2022 THEN 105
    ELSE 999

\* case_when of reason_for_priority; paste(Identifier, year_received) is the
\* pair of its two parts.
reason_for_priority(level, ident, yr) ==
    IF level = 0 THEN <<"CRITICAL: Hot List">>
    ELSE IF ident = "UIC" THEN <<"Highest Priority: UIC">>
    ELSE <<ident, yr>>

\* The two mutate() calls before arrange(): the columns added to a row.
classify(r, hot) ==
    LET yr == year(r.DateReceived)
    IN  [SampleID |-> r.SampleID, proband |-> r.proband,
         DateReceived |-> r.DateReceived, Identifier |-> r.Identifier,
         report |-> r.report, ingest |-> r.ingest,
         year_received |-> yr,
         sample_id_num |-> sample_id_num(r.SampleID),
         priority_level |-> priority_level(r.SampleID, r.Identifier, yr, hot)]

\* ColumnBefore with missing values first.
ColumnBefore_MissingFirst(a, b) == b # NA /\ (a = NA \/ a < b)

\* Order of one sort column in arrange(): ascending, missing values last.
ColumnBefore(a, b) == a # NA /\ (b = NA \/ a < b)

\* arrange(priority_level, `Date Received`, sample_id_num): a comes strictly
\* before b.
ArrangeBefore(a, b) ==
    \/ ColumnBefore(a.priority_level, b.priority_level)
    \/ /\ a.priority_level = b.priority_level
       /\ ColumnBefore(a.DateReceived, b.DateReceived)
    \/ /\ a.priority_level = b.priority_level
       /\ a.DateReceived = b.DateReceived
       /\ ColumnBefore(a.sample_id_num, b.sample_id_num)

\* x placed into the sorted s behind every row it does not come strictly before.
RECURSIVE InsertRow(_, _)
InsertRow(s, x) ==
    IF s = << >> THEN <<x>>
    ELSE IF ArrangeBefore(x, s[Len(s)]) THEN Append(InsertRow(SubSeq(s, 1, Len(s) - 1), x), s[Len(s)])
    ELSE Append(s, x)

\* arrange(): a stable sort, rows with equal keys stay in their input order.
RECURSIVE arrange(_)
arrange(s) ==
    IF s = << >> THEN << >>
    ELSE InsertRow(arrange(SubSeq(s, 1, Len(s) - 1)), s[Len(s)])

\* rank with min_rank(priority_level) in place of row_number().
rank_ByLevel(s) ==
    [i \in 1..Len(s) |->
        [SampleID |-> s[i].SampleID, proband |-> s[i].proband,
         DateReceived |-> s[i].DateReceived, Identifier |-> s[i].Identifier,
         report |-> s[i].report, ingest |-> s[i].ingest,
         year_received |-> s[i].year_received,
         sample_id_num |-> s[i].sample_id_num,
         priority_level |-> s[i].priority_level,
         priority_rank |->
             1 + Cardinality({j \in 1..Len(s) : s[j].priority_level < s[i].priority_level}),
         reason_for_priority |->
             reason_for_priority(s[i].priority_level, s[i].Identifier, s[i].year_received)]]

\* priority_rank = row_number() and reason_for_priority, added after arrange().
rank(s) ==
    [i \in 1..Len(s) |->
        [SampleID |-> s[i].SampleID, proband |-> s[i].proband,
         DateReceived |-> s[i].DateReceived, Identifier |-> s[i].Identifier,
         report |-> s[i].report, ingest |-> s[i].ingest,
         year_received |-> s[i].year_received,
         sample_id_num |-> s[i].sample_id_num,
         priority_level |-> s[i].priority_level,
         priority_rank |-> i,
         reason_for_priority |->
             reason_for_priority(s[i].priority_level, s[i].Identifier, s[i].year_received)]]

\* us_holidays: holidayNYSE(2025) and holidayNYSE(2026).
holidays_2025 ==
    {Ymd(2025, 1, 1), Ymd(2025, 1, 20), Ymd(2025, 2, 17), Ymd(2025, 4, 18),
     Ymd(2025, 5, 26), Ymd(2025, 6, 19), Ymd(2025, 7, 4), Ymd(2025, 9, 1),
     Ymd(2025, 11, 27), Ymd(2025, 12, 25)}
holidays_2026 ==
    {Ymd(2026, 1, 1), Ymd(2026, 1, 19), Ymd(2026, 2, 16), Ymd(2026, 4, 3),
     Ymd(2026, 5, 25), Ymd(2026, 6, 19), Ymd(2026, 7, 3), Ymd(2026, 9, 7),
     Ymd(2026, 11, 26), Ymd(2026, 12, 25)}
us_holidays == holidays_2025 \cup holidays_2026

\* Candidates generated beyond the number of meetings needed.
DateBuffer == 40

\* days_to_tuesday without the step from 0 to 7.
days_to_tuesday_TodayCounts(t) == (3 - wday(t) + 7) % 7

days_to_tuesday(t) ==
    LET d == (3 - wday(t) + 7) % 7 IN IF d = 0 THEN 7 ELSE d
days_to_friday(t) ==
    LET d == (6 - wday(t) + 7) % 7 IN IF d = 0 THEN 7 ELSE d

\* first_meeting for today = t (the run date minus one day).
FirstMeeting(t) ==
    LET tue == t + days_to_tuesday(t)
        fri == t + days_to_friday(t)
    IN  IF tue < fri THEN tue ELSE fri

\* One step of the generating loop: the candidate after current_date.
NextCandidate(current_date) ==
    IF wday(current_date) = 3 THEN current_date + 3 ELSE current_date + 4

\* The loop for (i in 1:(num_meetings + 40)): n candidates from current_date on.
RECURSIVE PotentialDates(_, _)
PotentialDates(current_date, n) ==
    IF n = 0 THEN << >>
    ELSE <<current_date>> \o PotentialDates(NextCandidate(current_date), n - 1)

\* FilterDates that filters on the user-cancelled dates only.
FilterDates_HolidaysKept(dates, excluded) ==
    SelectSeq(dates, LAMBDA d : d \notin (excluded \ us_holidays))

\* potential_dates[!potential_dates %in% do_not_schedule_dates]
FilterDates(dates, excluded) ==
    SelectSeq(dates, LAMBDA d : d \notin excluded)

\* IndexOneTo that selects v[2:(n + 1)].
IndexOneTo_FromTwo(v, n) ==
    [k \in 1..n |-> IF k + 1 <= Len(v) THEN v[k + 1] ELSE NA]

\* v[1:n]: the index vector 1:n counts down to <<1, 0>> when n = 0; index 0
\* selects nothing and an index past the end selects NA.
IndexOneTo(v, n) ==
    LET idx  == IF n >= 1 THEN [i \in 1..n |-> i] ELSE <<1, 0>>
        kept == SelectSeq(idx, LAMBDA i : i # 0)
    IN  [k \in 1..Len(kept) |-> IF kept[k] <= Len(v) THEN v[kept[k]] ELSE NA]

\* mutate(meeting_date = col): col has one value per row, or a single value
\* that is recycled to every row (to none when there is no row).
\* MutateOK without the recycling of a single value.
MutateOK_SameSizeOnly(rows, col) == Len(col) = Len(rows)

MutateOK(rows, col) == Len(col) = Len(rows) \/ Len(col) = 1
mutate_meeting_date(rows, col) ==
    [i \in 1..Len(rows) |->
        [SampleID |-> rows[i].SampleID, proband |-> rows[i].proband,
         DateReceived |-> rows[i].DateReceived, Identifier |-> rows[i].Identifier,
         report |-> rows[i].report, ingest |-> rows[i].ingest,
         year_received |-> rows[i].year_received,
         sample_id_num |-> rows[i].sample_id_num,
         priority_level |-> rows[i].priority_level,
         priority_rank |-> rows[i].priority_rank,
         reason_for_priority |-> rows[i].reason_for_priority,
         meeting_date |-> IF Len(col) = Len(rows) THEN col[i] ELSE col[1]]]

-----------------------------------------------------------------------------
(* The run *)

\* null of JavaScript, as the value of `error'.
null == "null"

\* The App component after its first render: the useState defaults, the effect
\* has issued both fetches.
UIInit ==
    /\ effect = "fetching"
    /\ settled = << >>
    /\ data = << >>
    /\ scheduleData = << >>
    /\ initialHeader = << >>
    /\ loading = TRUE
    /\ error = null
    /\ searchTerm = ""
    /\ sortConfig = [key |-> "Date Received", direction |-> "descending"]
    /\ identifierFilter = "All"
    /\ probandFilter = "1"
    /\ geneyxFilter = "All"
    /\ reportFilter = "All"
    /\ processedFilter = "All"

Init ==
    /\ UIInit
    /\ pc = "write_database"
    /\ svi_database \in Databases
    /\ database_csv = Unwritten
    /\ scheduler = << >>
    /\ hotlist = {}
    /\ prioritized_list = << >>
    /\ do_not_schedule_dates = {}
    /\ num_meetings = 0
    /\ run_date = NA
    /\ first_meeting = NA
    /\ potential_dates = << >>
    /\ final_meeting_dates = << >>
    /\ final_schedule = << >>
    /\ scheduler_csv = Unwritten
    /\ dist_database_csv = Unwritten
    /\ dist_scheduler_csv = Unwritten

\* write.csv(svi.database, "./svi-dashboard/public/svi_database.csv")
WriteDatabase ==
    /\ pc = "write_database"
    /\ database_csv' = Written(svi_database)
    /\ pc' = "filter"
    /\ UNCHANGED ui_vars
    /\ UNCHANGED <<svi_database, scheduler, hotlist, prioritized_list,
                   do_not_schedule_dates, num_meetings, run_date, first_meeting,
                   potential_dates, final_meeting_dates, final_schedule,
                   scheduler_csv, dist_database_csv, dist_scheduler_csv>>

\* scheduler = svi.database %>% select(...) %>% filter(proband == 1, report == 0)
FilterScheduler ==
    /\ pc = "filter"
    /\ scheduler' = SelectSeq(svi_database, eligible)
    /\ pc' = "read_hotlist"
    /\ UNCHANGED ui_vars
    /\ UNCHANGED <<svi_database, database_csv, hotlist, prioritized_list,
                   do_not_schedule_dates, num_meetings, run_date, first_meeting,
                   potential_dates, final_meeting_dates, final_schedule,
                   scheduler_csv, dist_database_csv, dist_scheduler_csv>>

\* hotlist = read.csv("./svi-dashboard/public/hotlist.csv")
ReadHotlist ==
    /\ pc = "read_hotlist"
    /\ \E h \in HotlistChoices : hotlist' = h
    /\ pc' = "prioritize"
    /\ UNCHANGED ui_vars
    /\ UNCHANGED <<svi_database, database_csv, scheduler, prioritized_list,
                   do_not_schedule_dates, num_meetings, run_date, first_meeting,
                   potential_dates, final_meeting_dates, final_schedule,
                   scheduler_csv, dist_database_csv, dist_scheduler_csv>>

\* read.csv() stops the script when hotlist.csv cannot be read.
ReadHotlistFails ==
    /\ pc = "read_hotlist"
    /\ pc' = "failed"
    /\ UNCHANGED ui_vars
    /\ UNCHANGED <<svi_database, database_csv, scheduler, hotlist, prioritized_list,
                   do_not_schedule_dates, num_meetings, run_date, first_meeting,
                   potential_dates, final_meeting_dates, final_schedule,
                   scheduler_csv, dist_database_csv, dist_scheduler_csv>>

\* prioritized_list = scheduler %>% mutate %>% mutate %>% arrange %>% mutate
Prioritize ==
    /\ pc = "prioritize"
    /\ prioritized_list' =
           rank(arrange([i \in 1..Len(scheduler) |-> classify(scheduler[i], hotlist)]))
    /\ pc' = "read_canceled"
    /\ UNCHANGED ui_vars
    /\ UNCHANGED <<svi_database, database_csv, scheduler, hotlist,
                   do_not_schedule_dates, num_meetings, run_date, first_meeting,
                   potential_dates, final_meeting_dates, final_schedule,
                   scheduler_csv, dist_database_csv, dist_scheduler_csv>>

\* canceled_meetings.csv is read, the holidays computed, and
\* do_not_schedule_dates = c(user_canceled_dates, us_holidays);
\* num_meetings = nrow(prioritized_list)
ReadCanceled ==
    /\ pc = "read_canceled"
    /\ \E user_canceled_dates \in CanceledChoices :
           do_not_schedule_dates' = user_canceled_dates \cup us_holidays
    /\ num_meetings' = Len(prioritized_list)
    /\ pc' = "first_meeting"
    /\ UNCHANGED ui_vars
    /\ UNCHANGED <<svi_database, database_csv, scheduler, hotlist, prioritized_list,
                   run_date, first_meeting, potential_dates, final_meeting_dates,
                   final_schedule, scheduler_csv, dist_database_csv,
                   dist_scheduler_csv>>

\* read.csv() stops the script when canceled_meetings.csv cannot be read.
ReadCanceledFails ==
    /\ pc = "read_canceled"
    /\ pc' = "failed"
    /\ UNCHANGED ui_vars
    /\ UNCHANGED <<svi_database, database_csv, scheduler, hotlist, prioritized_list,
                   do_not_schedule_dates, num_meetings, run_date, first_meeting,
                   potential_dates, final_meeting_dates, final_schedule,
                   scheduler_csv, dist_database_csv, dist_scheduler_csv>>

\* today = Sys.Date() - 1; first_meeting = min(next Tuesday, next Friday)
FindFirstMeeting ==
    /\ pc = "first_meeting"
    /\ \E sys_date \in RunDates :
           /\ run_date' = sys_date
           /\ first_meeting' = FirstMeeting(sys_date - 1)
    /\ pc' = "generate"
    /\ UNCHANGED ui_vars
    /\ UNCHANGED <<svi_database, database_csv, scheduler, hotlist, prioritized_list,
                   do_not_schedule_dates, num_meetings, potential_dates,
                   final_meeting_dates, final_schedule, scheduler_csv,
                   dist_database_csv, dist_scheduler_csv>>

\* The generating loop, then the filter on do_not_schedule_dates.
GenerateDates ==
    /\ pc = "generate"
    /\ potential_dates' = PotentialDates(first_meeting, num_meetings + DateBuffer)
    /\ final_meeting_dates' = FilterDates(potential_dates', do_not_schedule_dates)
    /\ pc' = "assign"
    /\ UNCHANGED ui_vars
    /\ UNCHANGED <<svi_database, database_csv, scheduler, hotlist, prioritized_list,
                   do_not_schedule_dates, num_meetings, run_date, first_meeting,
                   final_schedule, scheduler_csv, dist_database_csv,
                   dist_scheduler_csv>>

\* final_schedule = prioritized_list %>%
\*     mutate(meeting_date = final_meeting_dates[1:num_meetings])
AssignDates ==
    /\ pc = "assign"
    /\ LET col == IndexOneTo(final_meeting_dates, num_meetings)
       IN  /\ MutateOK(prioritized_list, col)
           /\ final_schedule' = mutate_meeting_date(prioritized_list, col)
    /\ pc' = "write_schedule"
    /\ UNCHANGED ui_vars
    /\ UNCHANGED <<svi_database, database_csv, scheduler, hotlist, prioritized_list,
                   do_not_schedule_dates, num_meetings, run_date, first_meeting,
                   potential_dates, final_meeting_dates, scheduler_csv,
                   dist_database_csv, dist_scheduler_csv>>

\* write.csv(final_schedule, "./svi-dashboard/public/analysis_scheduler.csv")
WriteSchedule ==
    /\ pc = "write_schedule"
    /\ scheduler_csv' = Written(final_schedule)
    /\ pc' = "copy_database"
    /\ UNCHANGED ui_vars
    /\ UNCHANGED <<svi_database, database_csv, scheduler, hotlist, prioritized_list,
                   do_not_schedule_dates, num_meetings, run_date, first_meeting,
                   potential_dates, final_meeting_dates, final_schedule,
                   dist_database_csv, dist_scheduler_csv>>

\* system("cp .../public/svi_database.csv .../dist/"): the exit status is not
\* looked at, the script goes on whether or not the copy was made.
CopyDatabase ==
    /\ pc = "copy_database"
    /\ \E copied \in BOOLEAN :
           dist_database_csv' = IF copied THEN database_csv ELSE dist_database_csv
    /\ pc' = "copy_schedule"
    /\ UNCHANGED ui_vars
    /\ UNCHANGED <<svi_database, database_csv, scheduler, hotlist, prioritized_list,
                   do_not_schedule_dates, num_meetings, run_date, first_meeting,
                   potential_dates, final_meeting_dates, final_schedule,
                   scheduler_csv, dist_scheduler_csv>>

\* system("cp .../public/analysis_scheduler.csv .../dist/")
CopySchedule ==
    /\ pc = "copy_schedule"
    /\ \E copied \in BOOLEAN :
           dist_scheduler_csv' = IF copied THEN scheduler_csv ELSE dist_scheduler_csv
    /\ pc' = "done"
    /\ UNCHANGED ui_vars
    /\ UNCHANGED <<svi_database, database_csv, scheduler, hotlist, prioritized_list,
                   do_not_schedule_dates, num_meetings, run_date, first_meeting,
                   potential_dates, final_meeting_dates, final_schedule,
                   scheduler_csv, dist_database_csv>>

Next ==
    \/ WriteDatabase
    \/ FilterScheduler
    \/ ReadHotlist
    \/ ReadHotlistFails
    \/ Prioritize
    \/ ReadCanceled
    \/ ReadCanceledFails
    \/ FindFirstMeeting
    \/ GenerateDates
    \/ AssignDates
    \/ WriteSchedule
    \/ CopyDatabase
    \/ CopySchedule

Spec == Init /\ [][Next]_vars

-----------------------------------------------------------------------------
(* Properties *)

\* The schedule the run has emitted, once analysis_scheduler.csv is written.
Emitted == scheduler_csv.written
Schedule == scheduler_csv.rows

\* The rows of svi_database that are a proband and have no report.
EligibleRows ==
    {i \in 1..Len(svi_database) :
        svi_database[i].proband = 1 /\ svi_database[i].report = 0}

\* C1: the emitted schedule holds exactly the eligible records (proband == 1 and
\* report == 0): each of them once, no reported, non-proband or proband-unknown
\* record, and as many entries as there are eligible records.
C1_ScheduleIsEligibleRecords ==
    Emitted =>
        /\ Len(Schedule) = Cardinality(EligibleRows)
        /\ \A i \in EligibleRows :
               Cardinality({k \in 1..Len(Schedule) : Schedule[k].ingest = i}) = 1
        /\ \A k \in 1..Len(Schedule) :
               /\ Schedule[k].ingest \in EligibleRows
               /\ Schedule[k].SampleID = svi_database[Schedule[k].ingest].SampleID
               /\ Schedule[k].DateReceived = svi_database[Schedule[k].ingest].DateReceived

\* C1 witness: a schedule emitted from a database that holds an eligible record
\* next to a record of unknown proband.
C1_Witness ==
    /\ Emitted
    /\ Len(Schedule) = 1
    /\ Len(svi_database) = 2
    /\ \E i \in 1..Len(svi_database) : svi_database[i].proband = NA

\* Fewer dates are left after the filter than there are meetings to hold.
CalendarExhausted ==
    /\ pc \in {"assign", "write_schedule", "copy_database", "copy_schedule", "done"}
    /\ Len(final_meeting_dates) < num_meetings

\* C2: calendar exhaustion is fatal: when fewer than N non-excluded dates remain
\* among the candidates the run emits no schedule, and no emitted schedule has
\* an entry without a meeting_date.
C2_ExhaustionIsFatal ==
    /\ CalendarExhausted => ~Emitted
    /\ Emitted => \A k \in 1..Len(Schedule) : Schedule[k].meeting_date # NA

\* C3: in every emitted schedule meeting_date is strictly increasing with
\* priority_rank, so that no two entries share a meeting date.
C3_MeetingDatesIncrease ==
    Emitted =>
        \A i, j \in 1..Len(Schedule) :
            Schedule[i].priority_rank < Schedule[j].priority_rank =>
                /\ Schedule[i].meeting_date # NA
                /\ Schedule[j].meeting_date # NA
                /\ Schedule[i].meeting_date < Schedule[j].meeting_date

\* C4: each meeting_date assigned to a schedule entry is a Tuesday or a Friday
\* and is not in the exclusion set (cancelled dates and holidays).  An entry
\* left without a date (C2) has no date assigned.
C4_DatesAreOpenTuesdaysFridays ==
    Emitted =>
        \A k \in 1..Len(Schedule) :
            Schedule[k].meeting_date # NA =>
                /\ (Schedule[k].meeting_date + 4) % 7 \in {2, 5}
                /\ Schedule[k].meeting_date \notin do_not_schedule_dates

\* C4 witness: a date was assigned although the first candidate was excluded.
C4_Witness ==
    /\ Emitted
    /\ Len(Schedule) >= 1
    /\ Schedule[1].meeting_date # NA
    /\ first_meeting \in do_not_schedule_dates

\* The first Tuesday or Friday strictly after day d.
RECURSIVE NextTuesdayOrFriday(_)
NextTuesdayOrFriday(d) ==
    IF (d + 1 + 4) % 7 \in {2, 5} THEN d + 1 ELSE NextTuesdayOrFriday(d + 1)

\* The k-th date outside excluded of the alternating Tuesday/Friday sequence
\* that starts at d.
RECURSIVE KthOpenDate(_, _, _)
KthOpenDate(d, excluded, k) ==
    IF d \in excluded THEN KthOpenDate(NextTuesdayOrFriday(d), excluded, k)
    ELSE IF k = 1 THEN d
    ELSE KthOpenDate(NextTuesdayOrFriday(d), excluded, k - 1)

\* C5: the k-th meeting date handed out is the k-th non-excluded date of the
\* alternating Tuesday/Friday sequence that begins at the first candidate:
\* excluded candidates take no slot, and no open candidate is passed over.
C5_KthDateIsKthOpenCandidate ==
    Emitted =>
        \A k \in 1..Len(Schedule) :
            Schedule[k].meeting_date # NA =>
                Schedule[k].meeting_date =
                    KthOpenDate(first_meeting, do_not_schedule_dates, k)

\* C5 witness: the first two candidates are excluded and the sample of rank 1
\* holds the third.
C5_Witness ==
    /\ Emitted
    /\ Len(Schedule) = 2
    /\ first_meeting \in do_not_schedule_dates
    /\ NextTuesdayOrFriday(first_meeting) \in do_not_schedule_dates
    /\ Schedule[1].meeting_date = NextTuesdayOrFriday(NextTuesdayOrFriday(first_meeting))
    /\ Schedule[2].meeting_date # NA

\* C6: the first candidate is the earliest Tuesday or Friday strictly after
\* startDate = run date - 1; startDate itself is never the candidate, a run on a
\* Tuesday or Friday has that day as first candidate, and every assigned
\* meeting_date is on or after the run date.
C6_FirstCandidateAfterStartDate ==
    first_meeting # NA =>
        /\ first_meeting = NextTuesdayOrFriday(run_date - 1)
        /\ first_meeting # run_date - 1
        /\ first_meeting >= run_date
        /\ (run_date + 4) % 7 \in {2, 5} => first_meeting = run_date
        /\ Emitted =>
               \A k \in 1..Len(Schedule) :
                   Schedule[k].meeting_date # NA => Schedule[k].meeting_date >= run_date

\* C6 witness: startDate is a Tuesday, the first candidate is the Friday after
\* it, and a date was assigned.
C6_Witness ==
    /\ Emitted
    /\ (run_date - 1 + 4) % 7 = 2
    /\ first_meeting = run_date + 2
    /\ Len(Schedule) >= 1
    /\ Schedule[1].meeting_date # NA

\* C7: priority_rank is a dense permutation of 1..N: every integer of 1..N is
\* the rank of exactly one entry, and an entry's rank is its position in the
\* sorted order.
C7_RankIsDensePermutation ==
    /\ \A k \in 1..Len(prioritized_list) : prioritized_list[k].priority_rank = k
    /\ Emitted =>
           /\ \A k \in 1..Len(Schedule) : Schedule[k].priority_rank = k
           /\ \A r \in 1..Len(Schedule) :
                  Cardinality({k \in 1..Len(Schedule) :
                                  Schedule[k].priority_rank = r}) = 1

\* C7 witness: two entries of one tier hold the ranks 1 and 2.
C7_Witness ==
    /\ Emitted
    /\ Len(Schedule) = 2
    /\ Schedule[1].priority_level = Schedule[2].priority_level
    /\ Schedule[1].priority_rank = 1
    /\ Schedule[2].priority_rank = 2

\* A value of a sort column comes before another, missing values last.
ValueBefore(a, b) == a # NA /\ (b = NA \/ a < b)

\* a's key (tier, dateReceived, number) is less than b's, where a record
\* without a number has no third key and ties on (tier, dateReceived).
ClaimedKeyLess(a, b) ==
    \/ a.priority_level < b.priority_level
    \/ /\ a.priority_level = b.priority_level
       /\ ValueBefore(a.DateReceived, b.DateReceived)
    \/ /\ a.priority_level = b.priority_level
       /\ a.DateReceived = b.DateReceived
       /\ a.sample_id_num # NA
       /\ b.sample_id_num # NA
       /\ a.sample_id_num < b.sample_id_num

\* a's key is less than b's, where a record without a number comes after the
\* records that have one.
KeyLess(a, b) ==
    \/ a.priority_level < b.priority_level
    \/ /\ a.priority_level = b.priority_level
       /\ ValueBefore(a.DateReceived, b.DateReceived)
    \/ /\ a.priority_level = b.priority_level
       /\ a.DateReceived = b.DateReceived
       /\ ValueBefore(a.sample_id_num, b.sample_id_num)

C9_KeyIsTotalOrder ==
    \A i, j \in 1..Len(prioritized_list) :
        prioritized_list[i].SampleID # prioritized_list[j].SampleID =>
            <<prioritized_list[i].priority_level, prioritized_list[i].DateReceived,
              prioritized_list[i].sample_id_num>>
            # <<prioritized_list[j].priority_level, prioritized_list[j].DateReceived,
                prioritized_list[j].sample_id_num>>

\* C10: a record whose Sample ID is in the hot-list has tier 0 and the reason
\* "CRITICAL: Hot List", whatever its class and its received date.
C10_HotListIsTierZero ==
    /\ \A k \in 1..Len(prioritized_list) :
           prioritized_list[k].SampleID \in hotlist =>
               /\ prioritized_list[k].priority_level = 0
               /\ prioritized_list[k].reason_for_priority = <<"CRITICAL: Hot List">>
    /\ Emitted =>
           \A k \in 1..Len(Schedule) :
               Schedule[k].SampleID \in hotlist =>
                   /\ Schedule[k].priority_level = 0
                   /\ Schedule[k].reason_for_priority = <<"CRITICAL: Hot List">>

\* C10 witness: a hot-listed UIC record received outside the tracked years and
\* a hot-listed UDD record without a received date are both scheduled in tier 0.
C10_Witness ==
    /\ Emitted
    /\ \E a, b \in 1..Len(Schedule) :
           /\ Schedule[a].Identifier = "UIC"
           /\ Schedule[a].year_received = 2021
           /\ Schedule[a].SampleID \in hotlist
           /\ Schedule[a].priority_level = 0
           /\ Schedule[b].Identifier = "UDD"
           /\ Schedule[b].DateReceived = NA
           /\ Schedule[b].SampleID \in hotlist
           /\ Schedule[b].priority_level = 0

-----------------------------------------------------------------------------
(* The classifier on its own: the prioritize step applied to eligible rows of
   every class and received year *)

\* Received dates explored by the classifier: missing, and days at the edges of
\* and inside the years around the tracked window.
ReceivedDates ==
    {NA, Ymd(2021, 12, 31), Ymd(2022, 1, 1), Ymd(2023, 7, 14), Ymd(2024, 2, 29),
     Ymd(2025, 12, 31), Ymd(2026, 1, 1)}

\* Databases of eligible rows only, of every Sample ID and received date.
EligibleDatabases ==
    UNION { { [i \in 1..n |-> [SampleID |-> f[i][1], proband |-> 1,
                               DateReceived |-> f[i][2],
                               Identifier |-> Identifier(f[i][1]),
                               report |-> 0, ingest |-> i]]
              : f \in [1..n -> SampleIDs \X ReceivedDates] } : n \in 0..MaxRows }

\* The script in front of the prioritize step: the database is written, every
\* row is eligible and the hot-list is read.
InitClassify ==
    /\ UIInit
    /\ pc = "prioritize"
    /\ svi_database \in EligibleDatabases
    /\ database_csv = Written(svi_database)
    /\ scheduler = SelectSeq(svi_database, eligible)
    /\ hotlist \in HotlistChoices
    /\ prioritized_list = << >>
    /\ do_not_schedule_dates = {}
    /\ num_meetings = 0
    /\ run_date = NA
    /\ first_meeting = NA
    /\ potential_dates = << >>
    /\ final_meeting_dates = << >>
    /\ final_schedule = << >>
    /\ scheduler_csv = Unwritten
    /\ dist_database_csv = Unwritten
    /\ dist_scheduler_csv = Unwritten

SpecClassify == InitClassify /\ [][Prioritize]_vars

\* The most recent year the tier rules name.
ReferenceYear == 2025

\* The received date lies in calendar year y.
ReceivedInYear(date, y) ==
    date # NA /\ Ymd(y, 1, 1) <= date /\ date <= Ymd(y, 12, 31)

\* C11: with R the reference year, a UDD record outside the hot-list received in
\* year R-k, k in 0..3, has tier 2+k, a Base record tier 102+k, and a UDD or
\* Base record received in any other year (or with no date) has tier 999.
C11_TierFollowsReceivedYear ==
    \A i \in 1..Len(prioritized_list) :
        LET e    == prioritized_list[i]
            base == IF e.Identifier = "UDD" THEN 2 ELSE 102
        IN  (e.SampleID \notin hotlist /\ e.Identifier \in {"UDD", "Base"}) =>
                /\ \A k \in 0..3 :
                       ReceivedInYear(e.DateReceived, ReferenceYear - k) =>
                           e.priority_level = base + k
                /\ (\A k \in 0..3 :
                       ~ReceivedInYear(e.DateReceived, ReferenceYear - k)) =>
                           e.priority_level = 999

\* C11 witness: a UDD record of year R-3 in tier 5 next to a Base record of the
\* year after R in tier 999, neither on the hot-list.
C11_Witness ==
    /\ hotlist = {}
    /\ \E a, b \in 1..Len(prioritized_list) :
           /\ prioritized_list[a].Identifier = "UDD"
           /\ prioritized_list[a].DateReceived = Ymd(2022, 1, 1)
           /\ prioritized_list[a].priority_level = 5
           /\ prioritized_list[b].Identifier = "Base"
           /\ prioritized_list[b].DateReceived = Ymd(2026, 1, 1)
           /\ prioritized_list[b].priority_level = 999

\* C12: a UIC record outside the hot-list has tier 1 whatever its received
\* date, and in every schedule it is ranked, and so dated, before every UDD or
\* Base record outside the hot-list.
C12_UICBeforeOtherClasses ==
    Emitted =>
        \A u, v \in 1..Len(Schedule) :
            (/\ Schedule[u].Identifier = "UIC"
             /\ Schedule[u].SampleID \notin hotlist) =>
                /\ Schedule[u].priority_level = 1
                /\ (/\ Schedule[v].Identifier \in {"UDD", "Base"}
                    /\ Schedule[v].SampleID \notin hotlist) =>
                       /\ Schedule[u].priority_rank < Schedule[v].priority_rank
                       /\ Schedule[u].meeting_date # NA
                       /\ \/ Schedule[v].meeting_date = NA
                          \/ Schedule[u].meeting_date < Schedule[v].meeting_date

\* The output files this run has written so far.
FilesWritten ==
    {f \in {"database_csv", "scheduler_csv", "dist_database_csv", "dist_scheduler_csv"} :
        CASE f = "database_csv" -> database_csv.written
          [] f = "scheduler_csv" -> scheduler_csv.written
          [] f = "dist_database_csv" -> dist_database_csv.written
          [] f = "dist_scheduler_csv" -> dist_scheduler_csv.written}

\* C13: a run that fails leaves no partial output: where the run aborts none of
\* its output files has been written, so the published files are all from one
\* completed run or all unchanged.
C13_NoPartialOutput ==
    /\ pc = "failed" => FilesWritten = {}
    /\ pc = "done" =>
           FilesWritten = {"database_csv", "scheduler_csv", "dist_database_csv",
                           "dist_scheduler_csv"}

\* C14: a record whose received date is missing is rejected: no schedule entry
\* has an undefined received date or year together with a tier and a meeting
\* date.
C14_MissingDateRejected ==
    Emitted =>
        \A k \in 1..Len(Schedule) :
            ~(/\ \/ Schedule[k].DateReceived = NA
                 \/ Schedule[k].year_received = NA
              /\ Schedule[k].priority_level \in {0, 1, 999} \cup (2..5) \cup (102..105)
              /\ Schedule[k].meeting_date # NA)

\* holidayNYSE(y) for the years a run of 2025 or 2026 looks at.
HolidaysOfYear(y) ==
    CASE y = 2025 -> holidays_2025
      [] y = 2026 -> holidays_2026
      [] y = 2027 -> {Ymd(2027, 1, 1), Ymd(2027, 1, 18), Ymd(2027, 2, 15),
                      Ymd(2027, 3, 26), Ymd(2027, 5, 31), Ymd(2027, 6, 18),
                      Ymd(2027, 7, 5), Ymd(2027, 9, 6), Ymd(2027, 11, 25),
                      Ymd(2027, 12, 24)}
      [] OTHER -> {}

\* The calendar year of the run.
RunYear == CHOOSE y \in 2025..2026 : ReceivedInYear(run_date, y)

\* C15: for a run in calendar year Y the exclusion set holds the public holidays
\* of Y and of Y+1, so no meeting_date falls on a public holiday of the run's
\* year or of the year after.
C15_HolidaysOfRunYearAndNext ==
    Emitted =>
        LET holidays == HolidaysOfYear(RunYear) \cup HolidaysOfYear(RunYear + 1)
        IN  /\ holidays \subseteq do_not_schedule_dates
            /\ \A k \in 1..Len(Schedule) : Schedule[k].meeting_date \notin holidays

\* C16: when no record is eligible (N = 0) the run goes through without an
\* error and emits a schedule of zero entries: the date assignment can be taken,
\* assigns no date and adds no row.
C16_EmptyScheduleWhenNoneEligible ==
    (/\ pc \in {"assign", "write_schedule", "copy_database", "copy_schedule", "done"}
     /\ num_meetings = 0) =>
        /\ pc = "assign" => ENABLED AssignDates
        /\ pc # "assign" => final_schedule = << >>
        /\ Emitted => Schedule = << >>

\* C16 witness: a database of two rows, none eligible, and an empty schedule
\* emitted by a run that reached its end.
C16_Witness ==
    /\ pc = "done"
    /\ Len(svi_database) = 2
    /\ num_meetings = 0
    /\ Emitted
    /\ Schedule = << >>

-----------------------------------------------------------------------------
(* The dashboard (App.jsx): values *)

\* Largest number of data rows of svi_database.csv the dashboard is served.
MaxCsvRows == 2

\* A CSV text is the sequence of its lines, a line the sequence of its cells.
\* First line of svi_database.csv (write.csv with row names: the first cell is
\* the empty name of the row-name column) with the columns the App reads.
SviHeaderLine ==
    <<"", "Sample ID", "proband", "Date Received", "MRN", "AGen ID", "Identifier",
      "DataDate", "report", "geneyx_uploaded">>

\* Data lines of svi_database.csv explored: a processed proband, a reported
\* relative, a directory without accession entry, and a line cut short.
SviLines ==
    { <<"1", "MCW_SVI_0012_UDD", "1", "2025-03-04", "NA", "NA", "UDD",
        "2025-05-01", "0", "1">>,
      <<"2", "MCW_SVI_0007_UIC", "0", "2021-11-09", "NA", "NA", "UIC", "NA", "1", "1">>,
      <<"3", "NA", "NA", "NA", "NA", "NA", "Base", "NA", "0", "0">>,
      <<"4", "MCW_SVI_0031", "1", "2024-12-30">> }

SviTexts ==
    UNION { { <<SviHeaderLine>> \o f : f \in [1..n -> SviLines] } : n \in 0..MaxCsvRows }

\* analysis_scheduler.csv texts explored: the header alone, entries with a
\* date, without a date and without a Sample ID, and a file without the
\* meeting_date column.
ScheduleTexts ==
    { << <<"Sample ID", "priority_rank", "meeting_date">> >>,
      << <<"Sample ID", "priority_rank", "meeting_date">>,
         <<"MCW_SVI_0012_UDD", "1", "2025-07-01">>,
         <<"MCW_SVI_0031", "2", "NA">>,
         <<"", "3", "2025-07-08">>,
         <<"MCW_SVI_0007_UIC">> >>,
      << <<"Sample ID", "priority_rank">>, <<"MCW_SVI_0012_UDD", "1">> >> }

\* What a fetch can come to: a rejection, a response that is not ok, a response
\* whose body cannot be read, or an ok response with a text.
Rejected == [state |-> "rejected"]
NotOk == [state |-> "resolved", ok |-> FALSE, statusText |-> "Not Found"]
BodyFails == [state |-> "resolved", ok |-> TRUE, readable |-> FALSE]
Ok(text) == [state |-> "resolved", ok |-> TRUE, readable |-> TRUE, text |-> text]

SviOutcomes == {Rejected, NotOk, BodyFails} \cup {Ok(t) : t \in SviTexts}
ScheduleOutcomes == {Rejected, NotOk, BodyFails} \cup {Ok(t) : t \in ScheduleTexts}

\* The elements of a sequence.
Range(f) == {f[i] : i \in DOMAIN f}

\* line.slice(1)
Slice1(line) == IF Len(line) <= 1 THEN << >> ELSE SubSeq(line, 2, Len(line))

\* parseSviCsv: the value of column i of a line: a cell that is absent or empty
\* reads 'NA', and 'NA' or '' becomes 'N/A'.
SviValue(relevantValues, i) ==
    LET value == IF i <= Len(relevantValues) /\ relevantValues[i] # ""
                 THEN relevantValues[i] ELSE "NA"
    IN  IF value = "NA" \/ value = "" THEN "N/A" ELSE value

\* parseSviCsv(csvString): the header without the row-name column, and one
\* object per data line with a value for every header key.
parseSviCsv(csvString) ==
    LET header == Slice1(csvString[1])
        obj(line) ==
            [key \in Range(header) |->
                SviValue(Slice1(line), CHOOSE i \in DOMAIN header : header[i] = key)]
    IN  [header |-> header,
         data |-> [r \in 1..(Len(csvString) - 1) |-> obj(csvString[r + 1])]]

\* header.indexOf(name), 0 standing for -1.
IndexOf(header, name) ==
    IF name \in Range(header)
    THEN CHOOSE i \in DOMAIN header :
             header[i] = name /\ \A j \in 1..(i - 1) : header[j] # name
    ELSE 0

\* parseScheduleCsv(csvString): [] for a text of fewer than two lines or without
\* the two columns; else the lines that have a Sample ID and a meeting date.
parseScheduleCsv(csvString) ==
    LET header == csvString[1]
        sampleIdIndex == IndexOf(header, "Sample ID")
        meetingDateIndex == IndexOf(header, "meeting_date")
        hasBoth(line) ==
            /\ sampleIdIndex <= Len(line) /\ line[sampleIdIndex] # ""
            /\ meetingDateIndex <= Len(line) /\ line[meetingDateIndex] # ""
        item(line) == [sampleId |-> line[sampleIdIndex],
                       meetingDate |-> line[meetingDateIndex]]
        kept == SelectSeq(Slice1(csvString), hasBoth)
    IN  IF Len(csvString) < 2 THEN << >>
        ELSE IF sampleIdIndex = 0 \/ meetingDateIndex = 0 THEN << >>
        ELSE [k \in 1..Len(kept) |-> item(kept[k])]

\* The filter of the effect: a row is dropped when Sample ID, Date Received,
\* MRN and AGen ID are all 'N/A'; a key the header lacks is undefined.
Field(row, key) == IF key \in DOMAIN row THEN row[key] ELSE "undefined"
preFilteredData(rawData) ==
    SelectSeq(rawData,
              LAMBDA row : ~(/\ Field(row, "Sample ID") = "N/A"
                             /\ Field(row, "Date Received") = "N/A"
                             /\ Field(row, "MRN") = "N/A"
                             /\ Field(row, "AGen ID") = "N/A"))

-----------------------------------------------------------------------------
(* The dashboard: the loading effect *)

\* Promise.all([fetch, fetch]) settles: it rejects when either fetch rejects,
\* else it resolves with the two responses.
FetchesSettle ==
    /\ effect = "fetching"
    /\ \E a \in SviOutcomes, b \in ScheduleOutcomes :
           IF a.state = "rejected" \/ b.state = "rejected"
           THEN /\ effect' = "catch"
                /\ settled' = [message |-> "Failed to fetch"]
           ELSE /\ effect' = "responses"
                /\ settled' = [svi |-> a, schedule |-> b]
    /\ UNCHANGED <<data, scheduleData, initialHeader, loading, error, searchTerm,
                   sortConfig, identifierFilter, probandFilter, geneyxFilter,
                   reportFilter, processedFilter>>
    /\ UNCHANGED script_vars

\* First then(): throws when a response is not ok, else awaits both texts.
ThenResponses ==
    /\ effect = "responses"
    /\ IF ~settled.svi.ok
       THEN /\ effect' = "catch"
            /\ settled' = [message |-> "Could not load main database: Not Found"]
       ELSE IF ~settled.schedule.ok
       THEN /\ effect' = "catch"
            /\ settled' = [message |-> "Could not load schedule: Not Found"]
       ELSE IF ~settled.svi.readable \/ ~settled.schedule.readable
       THEN /\ effect' = "catch"
            /\ settled' = [message |-> "Failed to read body"]
       ELSE /\ effect' = "texts"
            /\ settled' = [sviText |-> settled.svi.text,
                           scheduleText |-> settled.schedule.text]
    /\ UNCHANGED <<data, scheduleData, initialHeader, loading, error, searchTerm,
                   sortConfig, identifierFilter, probandFilter, geneyxFilter,
                   reportFilter, processedFilter>>
    /\ UNCHANGED script_vars

\* Second then(): parses both texts and sets header, data and schedule.
ThenParse ==
    /\ effect = "texts"
    /\ LET parsed == parseSviCsv(settled.sviText)
           schedule == parseScheduleCsv(settled.scheduleText)
       IN  /\ initialHeader' = parsed.header
           /\ data' = preFilteredData(parsed.data)
           /\ scheduleData' = schedule
    /\ effect' = "finally"
    /\ settled' = << >>
    /\ UNCHANGED <<loading, error, searchTerm, sortConfig, identifierFilter,
                   probandFilter, geneyxFilter, reportFilter, processedFilter>>
    /\ UNCHANGED script_vars

\* catch() that logs the error and sets nothing.
Catch_LogsOnly ==
    /\ effect = "catch"
    /\ error' = error
    /\ effect' = "finally"
    /\ settled' = << >>
    /\ UNCHANGED <<data, scheduleData, initialHeader, loading, searchTerm,
                   sortConfig, identifierFilter, probandFilter, geneyxFilter,
                   reportFilter, processedFilter>>
    /\ UNCHANGED script_vars

\* catch(): setError(e.message)
Catch ==
    /\ effect = "catch"
    /\ error' = settled.message
    /\ effect' = "finally"
    /\ settled' = << >>
    /\ UNCHANGED <<data, scheduleData, initialHeader, loading, searchTerm,
                   sortConfig, identifierFilter, probandFilter, geneyxFilter,
                   reportFilter, processedFilter>>
    /\ UNCHANGED script_vars

\* finally(): setLoading(false)
Finally ==
    /\ effect = "finally"
    /\ loading' = FALSE
    /\ effect' = "done"
    /\ UNCHANGED <<settled, data, scheduleData, initialHeader, error, searchTerm,
                   sortConfig, identifierFilter, probandFilter, geneyxFilter,
                   reportFilter, processedFilter>>
    /\ UNCHANGED script_vars

-----------------------------------------------------------------------------
(* The dashboard: the table and the event handlers *)

\* Columns whose header cell is clicked in the runs explored (of visibleColumns).
SortableColumns == {"Sample ID", "Date Received", "DataDate"}

\* Texts typed into the search box in the runs explored.
SearchTerms == {"", "udd"}

\* String(val).toLowerCase().includes(term.toLowerCase()) on the cells and terms
\* explored.
Includes(val, term) ==
    \/ term = ""
    \/ term = "udd" /\ val \in {"MCW_SVI_0012_UDD", "UDD"}

\* The cells of the sortable text columns in the order of JavaScript's < on
\* strings (by code unit: digits before letters, "M" before "N").
CellOrder ==
    <<"2025-05-01", "MCW_SVI_0007_UIC", "MCW_SVI_0012_UDD", "MCW_SVI_0031", "N/A">>
StringLess(a, b) ==
    \E i, j \in DOMAIN CellOrder : CellOrder[i] = a /\ CellOrder[j] = b /\ i < j

\* new Date(val) of the received dates explored, as a day number.
DateOf(val) ==
    CASE val = "2025-03-04" -> Ymd(2025, 3, 4)
      [] val = "2021-11-09" -> Ymd(2021, 11, 9)
      [] val = "2024-12-30" -> Ymd(2024, 12, 30)

\* The comparator of dataToProcess.sort: negative, zero or positive.
Compare(a, b, config) ==
    LET aVal == Field(a, config.key)
        bVal == Field(b, config.key)
    IN  IF config.key = "Date Received"
        THEN IF aVal = "N/A" THEN 1
             ELSE IF bVal = "N/A" THEN -1
             ELSE IF config.direction = "ascending"
                  THEN DateOf(aVal) - DateOf(bVal)
                  ELSE DateOf(bVal) - DateOf(aVal)
        ELSE IF StringLess(aVal, bVal)
             THEN (IF config.direction = "ascending" THEN -1 ELSE 1)
        ELSE IF StringLess(bVal, aVal)
             THEN (IF config.direction = "ascending" THEN 1 ELSE -1)
        ELSE 0

\* Array.prototype.sort for short arrays (insertion): x moves in front of the
\* rows it compares negative to.
RECURSIVE InsertByCompare(_, _, _)
InsertByCompare(sorted, x, config) ==
    IF sorted = << >> THEN <<x>>
    ELSE IF Compare(x, sorted[Len(sorted)], config) < 0
         THEN Append(InsertByCompare(SubSeq(sorted, 1, Len(sorted) - 1), x, config),
                     sorted[Len(sorted)])
    ELSE Append(sorted, x)

RECURSIVE SortRows(_, _)
SortRows(rows, config) ==
    IF rows = << >> THEN << >>
    ELSE InsertByCompare(SortRows(SubSeq(rows, 1, Len(rows) - 1), config),
                         rows[Len(rows)], config)

\* filteredData as a function of the state it is memoised on.
FilteredData(rows, term, config, identifierF, probandF, geneyxF, reportF, processedF) ==
    LET byIdentifier == IF identifierF # "All"
                        THEN SelectSeq(rows, LAMBDA item : Field(item, "Identifier") = identifierF)
                        ELSE rows
        byProband == IF probandF # "All"
                     THEN SelectSeq(byIdentifier, LAMBDA item : Field(item, "proband") = probandF)
                     ELSE byIdentifier
        byGeneyx == IF geneyxF # "All"
                    THEN SelectSeq(byProband, LAMBDA item : Field(item, "geneyx_uploaded") = geneyxF)
                    ELSE byProband
        byReport == IF reportF # "All"
                    THEN SelectSeq(byGeneyx, LAMBDA item : Field(item, "report") = reportF)
                    ELSE byGeneyx
        byProcessed == IF processedF # "All"
                       THEN SelectSeq(byReport,
                                LAMBDA item : (Field(item, "DataDate") # "N/A") = (processedF = "1"))
                       ELSE byReport
        sorted == SortRows(byProcessed, config)
    IN  IF term = "" THEN sorted
        ELSE SelectSeq(sorted,
                 LAMBDA item : \E key \in DOMAIN item : Includes(item[key], term))

\* The rows the table shows.
filteredData ==
    FilteredData(data, searchTerm, sortConfig, identifierFilter, probandFilter,
                 geneyxFilter, reportFilter, processedFilter)

\* The options of the identifier select besides 'All'.
uniqueIdentifiers ==
    {Field(data[i], "Identifier") : i \in DOMAIN data} \ {"N/A"}

\* The table and its controls are rendered: not loading, no error.
TableShown == ~loading /\ error = null

\* onChange of the search box
SetSearchTerm ==
    /\ TableShown
    /\ \E value \in SearchTerms : searchTerm' = value
    /\ UNCHANGED <<effect, settled, data, scheduleData, initialHeader, loading, error,
                   sortConfig, identifierFilter, probandFilter, geneyxFilter,
                   reportFilter, processedFilter>>
    /\ UNCHANGED script_vars

\* onChange of the identifier select
SetIdentifierFilter ==
    /\ TableShown
    /\ \E value \in {"All"} \cup uniqueIdentifiers : identifierFilter' = value
    /\ UNCHANGED <<effect, settled, data, scheduleData, initialHeader, loading, error,
                   searchTerm, sortConfig, probandFilter, geneyxFilter,
                   reportFilter, processedFilter>>
    /\ UNCHANGED script_vars

\* onChange of the proband select
SetProbandFilter ==
    /\ TableShown
    /\ \E value \in {"All", "1", "0"} : probandFilter' = value
    /\ UNCHANGED <<effect, settled, data, scheduleData, initialHeader, loading, error,
                   searchTerm, sortConfig, identifierFilter, geneyxFilter,
                   reportFilter, processedFilter>>
    /\ UNCHANGED script_vars

\* onChange of the analyzed (geneyx) select
SetGeneyxFilter ==
    /\ TableShown
    /\ \E value \in {"All", "1", "0"} : geneyxFilter' = value
    /\ UNCHANGED <<effect, settled, data, scheduleData, initialHeader, loading, error,
                   searchTerm, sortConfig, identifierFilter, probandFilter,
                   reportFilter, processedFilter>>
    /\ UNCHANGED script_vars

\* onChange of the report select
SetReportFilter ==
    /\ TableShown
    /\ \E value \in {"All", "1", "0"} : reportFilter' = value
    /\ UNCHANGED <<effect, settled, data, scheduleData, initialHeader, loading, error,
                   searchTerm, sortConfig, identifierFilter, probandFilter,
                   geneyxFilter, processedFilter>>
    /\ UNCHANGED script_vars

\* onChange of the processed select
SetProcessedFilter ==
    /\ TableShown
    /\ \E value \in {"All", "1", "0"} : processedFilter' = value
    /\ UNCHANGED <<effect, settled, data, scheduleData, initialHeader, loading, error,
                   searchTerm, sortConfig, identifierFilter, probandFilter,
                   geneyxFilter, reportFilter>>
    /\ UNCHANGED script_vars

\* handleSort with the direction toggled whatever the column.
handleSort_AlwaysToggles(key) ==
    /\ TableShown
    /\ sortConfig' = [key |-> key,
                      direction |-> IF sortConfig.direction = "ascending"
                                    THEN "descending" ELSE "ascending"]
    /\ UNCHANGED <<effect, settled, data, scheduleData, initialHeader, loading, error,
                   searchTerm, identifierFilter, probandFilter, geneyxFilter,
                   reportFilter, processedFilter>>
    /\ UNCHANGED script_vars

\* handleSort(key): a click on the header cell of column key.
handleSort(key) ==
    /\ TableShown
    /\ sortConfig' = [key |-> key,
                      direction |-> IF sortConfig.key = key
                                       /\ sortConfig.direction = "ascending"
                                    THEN "descending" ELSE "ascending"]
    /\ UNCHANGED <<effect, settled, data, scheduleData, initialHeader, loading, error,
                   searchTerm, identifierFilter, probandFilter, geneyxFilter,
                   reportFilter, processedFilter>>
    /\ UNCHANGED script_vars

HandleSort == \E key \in SortableColumns : handleSort(key)

\* handleResetFilters with the proband filter set to 'All'.
handleResetFilters_ProbandAll ==
    /\ TableShown
    /\ identifierFilter' = "All"
    /\ probandFilter' = "All"
    /\ geneyxFilter' = "All"
    /\ reportFilter' = "All"
    /\ processedFilter' = "All"
    /\ searchTerm' = ""
    /\ UNCHANGED <<effect, settled, data, scheduleData, initialHeader, loading, error,
                   sortConfig>>
    /\ UNCHANGED script_vars

\* handleResetFilters: a click on the reset button.
handleResetFilters ==
    /\ TableShown
    /\ identifierFilter' = "All"
    /\ probandFilter' = "1"
    /\ geneyxFilter' = "All"
    /\ reportFilter' = "All"
    /\ processedFilter' = "All"
    /\ searchTerm' = ""
    /\ UNCHANGED <<effect, settled, data, scheduleData, initialHeader, loading, error,
                   sortConfig>>
    /\ UNCHANGED script_vars

\* The dashboard is mounted; the script is not running.
InitUI ==
    /\ UIInit
    /\ pc = "write_database"
    /\ svi_database = << >>
    /\ database_csv = Unwritten
    /\ scheduler = << >>
    /\ hotlist = {}
    /\ prioritized_list = << >>
    /\ do_not_schedule_dates = {}
    /\ num_meetings = 0
    /\ run_date = NA
    /\ first_meeting = NA
    /\ potential_dates = << >>
    /\ final_meeting_dates = << >>
    /\ final_schedule = << >>
    /\ scheduler_csv = Unwritten
    /\ dist_database_csv = Unwritten
    /\ dist_scheduler_csv = Unwritten

NextUI ==
    \/ FetchesSettle
    \/ ThenResponses
    \/ ThenParse
    \/ Catch
    \/ Finally
    \/ SetSearchTerm
    \/ SetIdentifierFilter
    \/ SetProbandFilter
    \/ SetGeneyxFilter
    \/ SetReportFilter
    \/ SetProcessedFilter
    \/ HandleSort
    \/ handleResetFilters

SpecUI == InitUI /\ [][NextUI]_vars

\* Every fetch settles and every callback of the promise chain is run.
SpecUIFair ==
    /\ SpecUI
    /\ WF_vars(FetchesSettle)
    /\ WF_vars(ThenResponses)
    /\ WF_vars(ThenParse)
    /\ WF_vars(Catch)
    /\ WF_vars(Finally)

-----------------------------------------------------------------------------
(* Properties of the dashboard *)

\* The header of the served database has been set.
Populated == initialHeader = Slice1(SviHeaderLine)

\* The state of the first render.
InitialSortConfig == [key |-> "Date Received", direction |-> "descending"]

\* C17: in every execution loading eventually becomes false and never returns
\* to true; once it is false, header, data and schedule are populated exactly
\* when error is null; whenever error is set the three are empty, and they are
\* set together from the two served texts, so the table is never there with a
\* failed schedule nor the schedule with a failed table.
C17_LoadSettlesAllOrNothing ==
    /\ <>(~loading)
    /\ [][~loading => ~loading']_vars
    /\ [](~loading => (Populated <=> error = null))
    /\ [](error # null =>
            data = << >> /\ scheduleData = << >> /\ initialHeader = << >>)
    /\ [][(initialHeader' # initialHeader \/ data' # data \/ scheduleData' # scheduleData)
            => /\ effect = "texts"
               /\ initialHeader' = parseSviCsv(settled.sviText).header
               /\ data' = preFilteredData(parseSviCsv(settled.sviText).data)
               /\ scheduleData' = parseScheduleCsv(settled.scheduleText)
               /\ error' = null]_vars

\* The schedule could not be loaded although the database could have been: the
\* load has ended with the error and an empty table.
C17_Witness ==
    /\ ~loading
    /\ error = "Could not load schedule: Not Found"
    /\ data = << >>
    /\ scheduleData = << >>
    /\ initialHeader = << >>

\* C18: handleSort(key) makes key the sort key, and the direction 'descending'
\* exactly when the key before was the same key and the direction before was
\* 'ascending', else 'ascending'; sortConfig changes in no other way, and it
\* starts as 'Date Received' descending, so the first click on that column
\* gives ascending.
C18_SortDirectionRule ==
    /\ sortConfig = InitialSortConfig
    /\ [][\A key \in SortableColumns :
            handleSort(key) =>
                /\ sortConfig'.key = key
                /\ sortConfig'.direction = "descending"
                     <=> (sortConfig.key = key /\ sortConfig.direction = "ascending")
                /\ sortConfig'.direction \in {"ascending", "descending"}]_vars
    /\ [][sortConfig' # sortConfig =>
            sortConfig'.direction =
                IF sortConfig'.key = sortConfig.key /\ sortConfig.direction = "ascending"
                THEN "descending" ELSE "ascending"]_vars

\* A column other than the initial one sorted descending: reached only by a
\* second click on the column after a first one that started ascending.
C18_Witness ==
    /\ TableShown
    /\ sortConfig = [key |-> "Sample ID", direction |-> "descending"]

\* The number of positions of a sequence that hold a value.
Count(rows, row) == Cardinality({i \in DOMAIN rows : rows[i] = row})

\* Two sequences hold the same rows, each as many times.
SameRows(a, b) ==
    /\ Len(a) = Len(b)
    /\ \A row \in Range(a) \cup Range(b) : Count(a, row) = Count(b, row)

\* The loaded rows with proband === '1'.
ProbandRows == SelectSeq(data, LAMBDA item : Field(item, "proband") = "1")

\* The five filters and the search term have their initial values.
FiltersInitial ==
    /\ identifierFilter = "All"
    /\ probandFilter = "1"
    /\ geneyxFilter = "All"
    /\ reportFilter = "All"
    /\ processedFilter = "All"
    /\ searchTerm = ""

\* C19: handleResetFilters, from any reachable state, sets the five filters and
\* the search term to their initial values, leaves sortConfig, data,
\* scheduleData, loading and error as they were, and after it the table shows
\* exactly the loaded rows with proband === '1'.
C19_ResetRestoresFilters ==
    /\ [][handleResetFilters =>
             /\ FiltersInitial'
             /\ UNCHANGED <<sortConfig, data, scheduleData, loading, error>>]_vars
    /\ [](FiltersInitial => SameRows(filteredData, ProbandRows))

\* A loaded table with a proband and another row, sorted otherwise than at the
\* start, with the filters at their initial values: the table shows the
\* proband alone.
C19_Witness ==
    /\ TableShown
    /\ FiltersInitial
    /\ sortConfig # InitialSortConfig
    /\ Len(data) = 2
    /\ Len(ProbandRows) = 1
    /\ filteredData = ProbandRows

====
